---- MODULE Spec2Model ----
(***************************************************************************)
(* Model of the two Scryfall scripts:                                      *)
(*   scryfall_downloader.py  (download flow: fetch_card, choose_image_uri, *)
(*                            download_image, main)                        *)
(*   scryfall_translate.py   (translate flow: http_get, fetch_named,       *)
(*                            search_spanish_prints_by_oracle,             *)
(*                            translate_name, assemble_printed_name, main) *)
(* and of parse_names_from_file, which both scripts share.                 *)
(*                                                                         *)
(* JSON objects are TLA+ records whose DOMAIN is the set of keys present.  *)
(* Python's None is the record None for objects and "" for strings read    *)
(* with dict.get and tested for truth (None and "" are both falsy).        *)
(***************************************************************************)
EXTENDS Naturals, Sequences, FiniteSets, TLC

VARIABLES
    pc,             \* position in the running script
    names,          \* list returned by parse_names_from_file
    lang,           \* args.lang
    size,           \* args.size
    i,              \* 1-based index of the name being processed by main
    strategies,     \* fetch_card: the list of request parameters
    s,              \* fetch_card: index of the next strategy of the for loop
    card,           \* the card object in hand (fetch_card result, translate step)
    used,           \* fetch_card: the strategy tag returned
    images,         \* choose_image_uri result
    j,              \* main: index of the next image to download
    saved_paths,    \* main: paths saved for the current name
    results_rows,   \* main: the summary rows (both flows)
    csv,            \* main: the rows written to the CSV file, <<>> until written
    translated_lines, \* translate main: lines of the translated deck
    spanish,        \* translate_name / assemble_printed_name result
    base_card,      \* translate_name: the unconstrained lookup's card
    data,           \* what the last http_get returned to its caller
    log,            \* the request-failure lines printed for the last request sent
    issued,         \* history: requests sent for the current name, in order
    got,            \* history: for each request sent for the current name, whether it gave a card
    resp,           \* history: the remote's answer to the last request
    awaitingDelay,  \* history: a lookup was sent and no pacing delay has followed yet
    lines,          \* parse_names_from_file: the lines read so far
    seen            \* parse_names_from_file: the set of names already emitted

vars == <<pc, names, lang, size, i, strategies, s, card, used, images, j,
          saved_paths, results_rows, csv, translated_lines, spanish, base_card,
          data, log, issued, got, resp, awaitingDelay, lines, seen>>

(***************************************************************************)
(* Bounds of the model.                                                    *)
(***************************************************************************)
MaxNames == 2
MaxFaces == 2
MaxLines == 2
MaxLineLen == 1

(***************************************************************************)
(* Generic helpers.                                                        *)
(***************************************************************************)
None == [none |-> TRUE]

Range(q) == {q[k] : k \in DOMAIN q}

SeqsUpTo(S, n) == UNION {[1..m -> S] : m \in 0..n}

Injective(q) == \A a, b \in DOMAIN q : q[a] = q[b] => a = b

\* sep.join(parts) for a list of strings
RECURSIVE JoinStr(_, _)
JoinStr(parts, sep) ==
    IF parts = <<>> THEN ""
    ELSE IF Len(parts) = 1 THEN parts[1]
    ELSE parts[1] \o sep \o JoinStr(Tail(parts), sep)

\* [x for x in q if x] for a list of strings
RECURSIVE NonEmpty(_)
NonEmpty(q) ==
    IF q = <<>> THEN <<>>
    ELSE IF q[1] # "" THEN <<q[1]>> \o NonEmpty(Tail(q))
    ELSE NonEmpty(Tail(q))

\* d.get(k, "") for a JSON object holding strings
Get(d, k) == IF k \in DOMAIN d THEN d[k] ELSE ""

\* optional JSON key: absent, or present with a value of V
Opt(k, V) == {<<>>} \cup {k :> v : v \in V}

(***************************************************************************)
(* Asset selector: scryfall_downloader.py, choose_image_uri.               *)
(* An image_uris mapping is a function from the keys present to URLs; ""   *)
(* is a falsy value (empty or null).  A result pair is <<url, suffix>>.    *)
(***************************************************************************)
RECURSIVE PickFirst(_, _)
PickFirst(image_uris, keys) ==
    IF keys = <<>> THEN ""
    ELSE IF keys[1] \in DOMAIN image_uris /\ image_uris[keys[1]] # ""
         THEN image_uris[keys[1]]
         ELSE PickFirst(image_uris, Tail(keys))

\* a plausible slip: 'large' tried before 'png'
pick_from_image_uris_WrongOrder(image_uris, sz) ==
    PickFirst(image_uris, <<sz, "large", "png", "normal">>)

\* the inner function of choose_image_uri; "" stands for its None
pick_from_image_uris(image_uris, sz) ==
    PickFirst(image_uris, <<sz, "png", "large", "normal">>)

\* the suffix f"-{idx}" of face idx
FaceSuffix(idx) == "-" \o ToString(idx)

\* the loop over enumerate(card["card_faces"], start=1), from position idx on
RECURSIVE FaceImages(_, _, _)
FaceImages(faces, idx, sz) ==
    IF idx > Len(faces) THEN <<>>
    ELSE LET face == faces[idx]
             url  == IF "image_uris" \in DOMAIN face
                     THEN pick_from_image_uris(face.image_uris, sz)
                     ELSE ""
         IN  (IF url # "" THEN << <<url, FaceSuffix(idx)>> >> ELSE <<>>)
             \o FaceImages(faces, idx + 1, sz)

choose_image_uri(c, sz) ==
    IF "image_uris" \in DOMAIN c
    THEN LET url == pick_from_image_uris(c.image_uris, sz)
         IN  IF url # "" THEN << <<url, "">> >> ELSE <<>>
    ELSE IF "card_faces" \in DOMAIN c
    THEN FaceImages(c.card_faces, 1, sz)
    ELSE <<>>

(***************************************************************************)
(* Display-name assembly: scryfall_translate.py, assemble_printed_name.    *)
(***************************************************************************)
\* face.get("printed_name") or face.get("name") or ""
FacePart(face) ==
    IF Get(face, "printed_name") # "" THEN face.printed_name ELSE Get(face, "name")

\* a plausible slip: faces that yield an empty name are not filtered out
assemble_printed_name_NoFilter(c) ==
    IF Get(c, "printed_name") # "" THEN c.printed_name
    ELSE IF "card_faces" \in DOMAIN c /\ c.card_faces # <<>>
    THEN JoinStr([k \in DOMAIN c.card_faces |-> FacePart(c.card_faces[k])], " // ")
    ELSE Get(c, "name")

assemble_printed_name(c) ==
    IF Get(c, "printed_name") # "" THEN c.printed_name
    ELSE IF "card_faces" \in DOMAIN c /\ c.card_faces # <<>>
    THEN JoinStr(NonEmpty([k \in DOMAIN c.card_faces |-> FacePart(c.card_faces[k])]),
                 " // ")
    ELSE Get(c, "name")

(***************************************************************************)
(* Values of the variables a specification does not use.                   *)
(***************************************************************************)
FlowIdle ==
    /\ names = <<>> /\ lang = "" /\ i = 0
    /\ strategies = <<>> /\ s = 0 /\ used = ""
    /\ j = 0 /\ saved_paths = <<>>
    /\ results_rows = <<>> /\ csv = <<>> /\ translated_lines = <<>>
    /\ base_card = None /\ data = None
    /\ log = <<>> /\ issued = <<>> /\ got = <<>> /\ resp = None
    /\ awaitingDelay = FALSE

ParseIdle == lines = <<>> /\ seen = {}

flowVars == <<names, lang, i, strategies, s, used, j, saved_paths, results_rows,
              csv, translated_lines, base_card, data, log, issued, got, resp,
              awaitingDelay>>

parseVars == <<lines, seen>>

(***************************************************************************)
(* SpecImages: choose_image_uri applied to every bounded record.        *)
(***************************************************************************)
MapKeys == {"png", "large", "normal"}

Url(k) == "https://img/" \o k \o (IF k = "png" THEN ".png" ELSE ".jpg")

\* every mapping from some of MapKeys to a URL or to a falsy value
ImageMaps == UNION {{m \in [K -> {"", "url"}] : TRUE} : K \in SUBSET MapKeys}

MapUrls(m) == [k \in DOMAIN m |-> IF m[k] = "" THEN "" ELSE Url(k)]

ImageUris == {MapUrls(m) : m \in ImageMaps}

ImageFaces == {[name |-> "F"] @@ o : o \in Opt("image_uris", ImageUris)}

\* a card object with the optional keys o (image_uris) and f (card_faces)
ImageCard(o, f) == [object |-> "card", name |-> "N"] @@ o @@ f

Sizes == {"small", "large"}

InitImages ==
    /\ pc = "choose"
    /\ \E o \in Opt("image_uris", ImageUris),
          f \in Opt("card_faces", SeqsUpTo(ImageFaces, MaxFaces)) :
            card = ImageCard(o, f)
    /\ size \in Sizes
    /\ images = <<>>
    /\ spanish = ""
    /\ FlowIdle /\ ParseIdle

ChooseImages ==
    /\ pc = "choose"
    /\ images' = choose_image_uri(card, size)
    /\ pc' = "chosen"
    /\ UNCHANGED <<card, size, spanish, flowVars, parseVars>>

NextImages == ChooseImages

SpecImages == InitImages /\ [][NextImages]_vars

(***************************************************************************)
(* SpecNames: assemble_printed_name applied to every record of NameCards.  *)
(***************************************************************************)
NameFaces ==
    {p @@ n : p \in Opt("printed_name", {"", "A", "B"}), n \in Opt("name", {"", "C"})}

NameCards ==
    {[object |-> "card"] @@ p @@ n @@ f :
        p \in Opt("printed_name", {"", "P"}),
        n \in Opt("name", {"N"}),
        f \in Opt("card_faces", SeqsUpTo(NameFaces, MaxFaces))}

InitNames ==
    /\ pc = "assemble"
    /\ card \in NameCards
    /\ spanish = ""
    /\ size = "" /\ images = <<>>
    /\ FlowIdle /\ ParseIdle

AssembleName ==
    /\ pc = "assemble"
    /\ spanish' = assemble_printed_name(card)
    /\ pc' = "assembled"
    /\ UNCHANGED <<card, size, images, flowVars, parseVars>>

NextNames == AssembleName

SpecNames == InitNames /\ [][NextNames]_vars

(***************************************************************************)
(* C8, C9: the two pure functions.                                         *)
(***************************************************************************)
Min(S) == CHOOSE x \in S : \A y \in S : x <= y
Max(S) == CHOOSE x \in S : \A y \in S : y <= x

\* the positions of the fallback list whose key is present in m with a non-empty value
GoodKeys(m, sz) ==
    LET order == <<sz, "png", "large", "normal">>
    IN  {n \in 1..4 : order[n] \in DOMAIN m /\ m[order[n]] # ""}

Resolvable(m, sz) == GoodKeys(m, sz) # {}

FirstUrl(m, sz) == m[<<sz, "png", "large", "normal">>[Min(GoodKeys(m, sz))]]

\* the faces (1-based positions) that carry a mapping with a resolvable URL
GoodFaces(c, sz) ==
    {n \in DOMAIN c.card_faces :
        /\ "image_uris" \in DOMAIN c.card_faces[n]
        /\ Resolvable(c.card_faces[n].image_uris, sz)}

\* the k-th smallest element of a set of numbers
Kth(S, k) == CHOOSE x \in S : Cardinality({y \in S : y < x}) = k - 1

ExpectedImages(c, sz, result) ==
    IF "image_uris" \in DOMAIN c
    THEN IF Resolvable(c.image_uris, sz)
         THEN result = << <<FirstUrl(c.image_uris, sz), "">> >>
         ELSE result = <<>>
    ELSE IF "card_faces" \in DOMAIN c
    THEN /\ Len(result) = Cardinality(GoodFaces(c, sz))
         /\ \A k \in 1..Len(result) :
               LET n == Kth(GoodFaces(c, sz), k)
               IN  result[k] = <<FirstUrl(c.card_faces[n].image_uris, sz),
                                 "-" \o ToString(n)>>
    ELSE result = <<>>

\* C8: choose_image_uri gives, for a record with a direct mapping, at most one pair
\* (url, "") with url the value of the first key of [size, png, large, normal] present
\* and non-empty; else, for a record with faces, one pair (url, "-i") per face i that
\* carries a mapping with a resolvable URL, in face order; else the empty list.
C8_AssetSelector ==
    pc = "chosen" =>
        /\ ExpectedImages(card, size, images)
        /\ "image_uris" \in DOMAIN card => Len(images) <= 1

\* a record without a direct mapping whose second face alone resolves: one pair, suffix -2
C8_Witness ==
    /\ pc = "chosen"
    /\ "image_uris" \notin DOMAIN card
    /\ "card_faces" \in DOMAIN card
    /\ GoodFaces(card, size) = {2}
    /\ images = << <<Url("large"), "-2">> >>
    /\ DOMAIN card.card_faces[2].image_uris = {"large", "normal"}
    /\ size = "small"

\* the name a face contributes: its printed name, else its canonical name, else nothing
FaceName(face) ==
    IF "printed_name" \in DOMAIN face /\ face.printed_name # "" THEN face.printed_name
    ELSE IF "name" \in DOMAIN face THEN face.name
    ELSE ""

\* the " // "-join of the names of the faces at the positions K, in increasing order
RECURSIVE JoinFaces(_, _)
JoinFaces(faces, K) ==
    IF K = {} THEN ""
    ELSE LET m == Max(K)
         IN  IF K = {m} THEN FaceName(faces[m])
             ELSE JoinFaces(faces, K \ {m}) \o " // " \o FaceName(faces[m])

\* the display name of a record, as the claim states it
ExpectedName(c) ==
    IF "printed_name" \in DOMAIN c /\ c.printed_name # ""
    THEN c.printed_name
    ELSE IF "card_faces" \in DOMAIN c /\ Len(c.card_faces) > 0
    THEN JoinFaces(c.card_faces,
                   {n \in DOMAIN c.card_faces : FaceName(c.card_faces[n]) # ""})
    ELSE IF "name" \in DOMAIN c THEN c.name ELSE ""

\* C9: assemble_printed_name gives the record's printed name when it is non-empty;
\* else, when the record carries faces, the " // "-join in face order of each face's
\* printed name or else canonical name, empty ones omitted; else the canonical name.
C9_DisplayName == pc = "assembled" => spanish = ExpectedName(card)

\* no printed name, a first face that yields nothing and a second without a printed
\* name whose canonical name is "C": the face is omitted and "C" is the whole name
C9_Witness ==
    /\ pc = "assembled"
    /\ "printed_name" \notin DOMAIN card
    /\ "card_faces" \in DOMAIN card
    /\ Len(card.card_faces) = 2
    /\ FaceName(card.card_faces[1]) = ""
    /\ "printed_name" \notin DOMAIN card.card_faces[2]
    /\ spanish = "C"

(***************************************************************************)
(* The remote database, as both flows see it through requests.get: a       *)
(* transport error (requests.RequestException), or an HTTP status with,    *)
(* for 200, the JSON object of the body.                                   *)
(***************************************************************************)
Names == {"a", "b", "c"}

\* what parse_names_from_file can return to a main that goes on: a non-empty list
\* of distinct names
NameLists == {q \in SeqsUpTo(Names, MaxNames) : q # <<>> /\ Injective(q)}

ListObject(cards) == [object |-> "list", data |-> cards]

Answer200(o) == [status |-> 200, json |-> o]

TransportError == [exc |-> TRUE]

FailureAnswers == {TransportError, [status |-> 404], [status |-> 500]}

\* request parameters: the dict as the list of its (key, value) items, in insertion order
ExactParams(name, l) ==
    << <<"exact", name>> >> \o (IF l # "" THEN << <<"lang", l>> >> ELSE <<>>)

FuzzyParams(name, l) ==
    << <<"fuzzy", name>> >> \o (IF l # "" THEN << <<"lang", l>> >> ELSE <<>>)

(***************************************************************************)
(* Download flow: scryfall_downloader.py.                                  *)
(***************************************************************************)
\* The card objects the remote answers with in the download flow.  Their field
\* values are lower-case ASCII without spaces, which slugify leaves as they are.
CardSingle ==
    [object |-> "card", name |-> "n1", printed_name |-> "p1", lang |-> "es",
     set |-> "s1", collector_number |-> "1",
     image_uris |-> [normal |-> Url("normal"), png |-> Url("png")]]

CardNoImage ==
    [object |-> "card", name |-> "n2", lang |-> "en", set |-> "s2",
     collector_number |-> "2"]

CardTwoFaces ==
    [object |-> "card", name |-> "n3", lang |-> "en", set |-> "s3",
     collector_number |-> "3",
     card_faces |-> << [name |-> "f1", image_uris |-> [normal |-> Url("normal")]],
                       [name |-> "f2", image_uris |-> [large |-> Url("large")]] >>]

CardBackOnly ==
    [object |-> "card", name |-> "n4", set |-> "s4", collector_number |-> "4",
     card_faces |-> << [name |-> "f1"],
                       [name |-> "f2", image_uris |-> [png |-> Url("png")]] >>]

DownloadCards == {CardSingle, CardNoImage, CardTwoFaces, CardBackOnly}

DownloadAnswers ==
    FailureAnswers \cup {Answer200(o) : o \in DownloadCards \cup {ListObject(<<>>)}}

\* "&".join([f"{k}={v}" for k, v in params.items()])
StrategyTag(params) ==
    JoinStr([k \in DOMAIN params |-> params[k][1] \o "=" \o params[k][2]], "&")

\* a plausible slip: the two unconstrained steps come first
BuildStrategies_Reordered(name, l) ==
    << ExactParams(name, "") >>
    \o (IF l # "" THEN << ExactParams(name, l) >> ELSE <<>>)
    \o << FuzzyParams(name, "") >>
    \o (IF l # "" THEN << FuzzyParams(name, l) >> ELSE <<>>)

\* fetch_card, the list built before the loop
BuildStrategies(name, l) ==
    (IF l # "" THEN << ExactParams(name, l) >> ELSE <<>>)
    \o << ExactParams(name, "") >>
    \o (IF l # "" THEN << FuzzyParams(name, l) >> ELSE <<>>)
    \o << FuzzyParams(name, "") >>

\* a plausible slip: the tag of a step drops its language component
TagOfStep_NoLang(params) == params[1][1] \o "=" \o params[1][2]

\* fetch_card, the tag returned with the card of the step that succeeded
TagOfStep(params) == StrategyTag(params)

\* ".png" in url.lower()
HasPngExtension(url) == url = Url("png")

\* main: printed_name = card.get("printed_name") or card.get("name") or name
PrintedNameOf(c, name) ==
    IF Get(c, "printed_name") # "" THEN c.printed_name
    ELSE IF Get(c, "name") # "" THEN c.name
    ELSE name

\* main: the destination path of one image of the card
DestPath(c, name, url, suffix) ==
    "out/" \o PrintedNameOf(c, name) \o "_"
    \o (IF Get(c, "lang") # "" THEN c.lang ELSE "xx") \o "_"
    \o Get(c, "set") \o Get(c, "collector_number")
    \o suffix \o (IF HasPngExtension(url) THEN ".png" ELSE ".jpg")

\* what can happen to one download_image call
DownloadOutcomes == {"ok", "http_error", "request_exception", "os_error"}

DownloadLangs == {"es", ""}

CsvHeaderDownload ==
    <<"Nombre original", "Nombre Scryfall/impreso", "Idioma", "Set", "Numero",
      "Ficheros guardados", "Busqueda">>

InitDownload ==
    /\ pc = "main_loop"
    /\ names \in NameLists
    /\ lang \in DownloadLangs
    /\ size = "normal"
    /\ i = 1
    /\ strategies = <<>> /\ s = 0
    /\ card = None /\ used = ""
    /\ images = <<>> /\ j = 0 /\ saved_paths = <<>>
    /\ results_rows = <<>> /\ csv = <<>>
    /\ translated_lines = <<>> /\ spanish = "" /\ base_card = None /\ data = None
    /\ log = <<>> /\ issued = <<>> /\ got = <<>> /\ resp = None
    /\ awaitingDelay = FALSE
    /\ ParseIdle

translateOnly == <<translated_lines, spanish, base_card>>

\* main calls fetch_card(name, args.lang): the strategies are built
FetchCardEnter ==
    /\ pc = "main_loop" /\ i <= Len(names)
    /\ strategies' = BuildStrategies(names[i], lang)
    /\ s' = 1
    /\ log' = <<>> /\ issued' = <<>> /\ got' = <<>> /\ resp' = None
    /\ pc' = "fetch_loop"
    /\ UNCHANGED <<names, lang, size, i, card, used, images, j, saved_paths,
                   results_rows, csv, data, awaitingDelay, translateOnly, parseVars>>

\* fetch_card: r.status_code == 200 and data.get("object") == "card"
StepSucceeds(r) ==
    "status" \in DOMAIN r /\ r.status = 200 /\ Get(r.json, "object") = "card"

\* what one iteration of fetch_card's loop prints
StepLog(name, params, r) ==
    IF "exc" \in DOMAIN r THEN << <<"Error de red", name>> >>
    ELSE IF r.status \notin {200, 404}
    THEN << <<"Respuesta HTTP", name, r.status, params>> >>
    ELSE <<>>

\* one iteration of fetch_card's loop: the request, then either the return of the
\* card (no delay) or what the iteration prints and time.sleep(REQUEST_DELAY)
FetchCardStep ==
    /\ pc = "fetch_loop" /\ s <= Len(strategies)
    /\ \E r \in DownloadAnswers :
        LET params == strategies[s] IN
        /\ resp' = r
        /\ issued' = Append(issued, params)
        /\ got' = Append(got, "status" \in DOMAIN r /\ r.status = 200
                              /\ r.json.object = "card")
        /\ log' = StepLog(names[i], params, r)
        /\ IF StepSucceeds(r)
           THEN /\ card' = r.json
                /\ used' = TagOfStep(params)
                /\ pc' = "fetched"
                /\ awaitingDelay' = TRUE
                /\ UNCHANGED s
           ELSE /\ awaitingDelay' = FALSE
                /\ s' = s + 1
                /\ UNCHANGED <<card, used, pc>>
    /\ UNCHANGED <<names, lang, size, i, strategies, images, j, saved_paths,
                   results_rows, csv, data, translateOnly, parseVars>>

\* fetch_card: the loop is over, return None, ""
FetchCardExhausted ==
    /\ pc = "fetch_loop" /\ s > Len(strategies)
    /\ card' = None /\ used' = ""
    /\ pc' = "fetched"
    /\ UNCHANGED <<names, lang, size, i, strategies, s, images, j, saved_paths,
                   results_rows, csv, data, log, issued, got, resp,
                   awaitingDelay, translateOnly, parseVars>>

\* main: if not card: the NO_ENCONTRADA row, continue
MainNotFound ==
    /\ pc = "fetched" /\ card = None
    /\ results_rows' = Append(results_rows,
                              <<names[i], "", "", "", "", "", "NO_ENCONTRADA">>)
    /\ i' = i + 1
    /\ pc' = "main_loop"
    /\ UNCHANGED <<names, lang, size, strategies, s, card, used, images, j,
                   saved_paths, csv, data, log, issued, got, resp,
                   awaitingDelay, translateOnly, parseVars>>

\* main: the images of the card are chosen; without any, the SIN_IMAGEN row, continue
MainChoose ==
    /\ pc = "fetched" /\ card # None
    /\ LET imgs == choose_image_uri(card, size) IN
        /\ images' = imgs
        /\ IF imgs = <<>>
           THEN /\ results_rows' =
                      Append(results_rows,
                             <<names[i], PrintedNameOf(card, names[i]), Get(card, "lang"),
                               Get(card, "set"), Get(card, "collector_number"), "",
                               "SIN_IMAGEN">>)
                /\ i' = i + 1
                /\ pc' = "main_loop"
                /\ UNCHANGED <<j, saved_paths>>
           ELSE /\ saved_paths' = <<>>
                /\ j' = 1
                /\ pc' = "download"
                /\ UNCHANGED <<results_rows, i>>
    /\ UNCHANGED <<names, lang, size, strategies, s, card, used, csv, data, log,
                   issued, got, resp, awaitingDelay,
                   translateOnly, parseVars>>

\* main: one download_image call of the loop over images.  download_image returns
\* False on a status other than 200 and on requests.RequestException; an OSError of
\* makedirs, open or write is caught nowhere and ends the process.
DownloadImage ==
    /\ pc = "download" /\ j <= Len(images)
    /\ \E outcome \in DownloadOutcomes :
        IF outcome = "os_error"
        THEN /\ pc' = "crashed"
             /\ UNCHANGED <<j, saved_paths>>
        ELSE /\ saved_paths' =
                   (IF outcome = "ok"
                    THEN Append(saved_paths,
                                DestPath(card, names[i], images[j][1], images[j][2]))
                    ELSE saved_paths)
             /\ j' = j + 1
             /\ UNCHANGED pc
    /\ UNCHANGED <<names, lang, size, i, strategies, s, card, used, images,
                   results_rows, csv, data, log, issued, got, resp,
                   awaitingDelay, translateOnly, parseVars>>

\* main: the row of a card with images, then the pacing delay
MainRow ==
    /\ pc = "download" /\ j > Len(images)
    /\ results_rows' =
          Append(results_rows,
                 <<names[i], PrintedNameOf(card, names[i]), Get(card, "lang"),
                   Get(card, "set"), Get(card, "collector_number"),
                   JoinStr(saved_paths, "|"), used>>)
    /\ awaitingDelay' = FALSE
    /\ i' = i + 1
    /\ pc' = "main_loop"
    /\ UNCHANGED <<names, lang, size, strategies, s, card, used, images, j,
                   saved_paths, csv, data, log, issued, got, resp,
                   translateOnly, parseVars>>

\* main: after the loop, the CSV is written
MainWriteCsv ==
    /\ pc = "main_loop" /\ i > Len(names)
    /\ csv' = <<CsvHeaderDownload>> \o results_rows
    /\ pc' = "done"
    /\ UNCHANGED <<names, lang, size, i, strategies, s, card, used, images, j,
                   saved_paths, results_rows, data, log, issued, got, resp,
                   awaitingDelay, translateOnly, parseVars>>

NextDownload ==
    \/ FetchCardEnter
    \/ FetchCardStep
    \/ FetchCardExhausted
    \/ MainNotFound
    \/ MainChoose
    \/ DownloadImage
    \/ MainRow
    \/ MainWriteCsv

SpecDownload == InitDownload /\ [][NextDownload]_vars

(***************************************************************************)
(* Claims about the download flow.                                         *)
(***************************************************************************)
\* the answer is a 200 whose body is an object of kind "card"
IsCardAnswer(r) ==
    /\ "status" \in DOMAIN r /\ r.status = 200
    /\ "object" \in DOMAIN r.json /\ r.json.object = "card"

\* the fixed resolution sequence for a non-empty language
FixedSequence(name, l) ==
    << << <<"exact", name>>, <<"lang", l>> >>,
       << <<"exact", name>> >>,
       << <<"fuzzy", name>>, <<"lang", l>> >>,
       << <<"fuzzy", name>> >> >>

\* C1: with a non-empty lang, the lookups of fetch_card are a prefix of [exact+lang,
\* exact, fuzzy+lang, fuzzy]; no step is issued after one that gave a card; the
\* function returns the card of the first such step, a 200 of another kind is no
\* success, and with no successful step the result is "not found".
C1_ResolutionOrder ==
    (lang # "" /\ pc \in {"fetch_loop", "fetched", "download"}) =>
        /\ Len(issued) <= 4
        /\ issued = SubSeq(FixedSequence(names[i], lang), 1, Len(issued))
        /\ \A k \in 1..(Len(issued) - 1) : ~got[k]
        /\ pc = "fetch_loop" => \A k \in 1..Len(issued) : ~got[k]
        /\ pc = "fetched" =>
              IF \E k \in 1..Len(issued) : got[k]
              THEN /\ IsCardAnswer(resp)
                   /\ card = resp.json
              ELSE /\ card = None
                   /\ Len(issued) = 4

\* step 1 answered with a 200 that is not a card, step 2 gave the card: two lookups
C1_Witness ==
    /\ pc = "fetched" /\ lang = "es"
    /\ Len(issued) = 2
    /\ got = <<FALSE, TRUE>>
    /\ card = CardSingle

\* a lookup request is sent in this step
LookupSent == issued' # issued /\ issued' # <<>>

\* C3: every lookup request is followed by a pacing delay before the next lookup
\* request is sent, whatever its outcome.
C3_EveryLookupPaced == [][LookupSent => ~awaitingDelay]_vars

\* C5: the run ends with exactly one summary row per name, in list order, whatever
\* fails for a name; no per-name failure aborts the run.
C5_PerNameIsolation ==
    pc \in {"done", "crashed"} =>
        /\ pc = "done"
        /\ Len(csv) = Len(names) + 1
        /\ \A k \in 1..Len(names) : csv[k + 1][1] = names[k]

\* the tag of the step with these parameters: mode=name, then &lang=language if any
ClaimTag(mode, name, l) ==
    mode \o "=" \o name \o (IF l = "" THEN "" ELSE "&lang=" \o l)

\* the tag of the k-th step of the strategy for this name and language
ExpectedTag(k, name, l) ==
    IF l = ""
    THEN (IF k = 1 THEN ClaimTag("exact", name, "") ELSE ClaimTag("fuzzy", name, ""))
    ELSE CASE k = 1 -> ClaimTag("exact", name, l)
           [] k = 2 -> ClaimTag("exact", name, "")
           [] k = 3 -> ClaimTag("fuzzy", name, l)
           [] OTHER -> ClaimTag("fuzzy", name, "")

\* some step of the strategy of the name just processed produced a record
RecordFound == \E k \in 1..Len(got) : got[k]

\* C6: the last column of a name's row is NO_ENCONTRADA exactly when no step
\* produced a record, SIN_IMAGEN exactly when a record was found and the asset
\* selector returned the empty list, and otherwise the tag of the step that
\* succeeded, naming exactly that step's parameters.
C6_LastColumn ==
    (pc = "main_loop" /\ i > 1) =>
        LET row == results_rows[i - 1] IN
        /\ Len(results_rows) = i - 1
        /\ row[1] = names[i - 1]
        /\ (row[7] = "NO_ENCONTRADA") <=> ~RecordFound
        /\ (row[7] = "SIN_IMAGEN") <=> (RecordFound /\ images = <<>>)
        /\ (RecordFound /\ images # <<>>) =>
              /\ row[7] = ExpectedTag(Len(issued), names[i - 1], lang)
              /\ issued[Len(issued)][1][2] = names[i - 1]
              /\ row[7] = (IF Len(issued[Len(issued)]) = 2
                           THEN ClaimTag(issued[Len(issued)][1][1], names[i - 1],
                                         issued[Len(issued)][2][2])
                           ELSE ClaimTag(issued[Len(issued)][1][1], names[i - 1], ""))

\* exact with language fails, only fuzzy without language succeeds: the tag of step 4
C6_Witness ==
    /\ pc = "main_loop" /\ i = 2 /\ lang = "es"
    /\ names[1] = "a"
    /\ got = <<FALSE, FALSE, FALSE, TRUE>>
    /\ results_rows[1][7] = "fuzzy=a"

(***************************************************************************)
(* Translate flow: scryfall_translate.py.                                  *)
(***************************************************************************)
TCard(l, extra) ==
    [object |-> "card", lang |-> l, set |-> "s1", collector_number |-> "1",
     scryfall_uri |-> "https://scryfall/" \o l] @@ extra

TCardEs == TCard("es", [name |-> "n1", printed_name |-> "p1", oracle_id |-> "o1"])
TCardFr == TCard("fr", [name |-> "n1", printed_name |-> "q1", oracle_id |-> "o1"])
TCardEn == TCard("en", [name |-> "n1", oracle_id |-> "o1"])
TCardEnNoOracle == TCard("en", [name |-> "n1"])
TCardEsNoName == TCard("es", [oracle_id |-> "o1"])
TCardFrNoName == TCard("fr", [oracle_id |-> "o1"])

TranslateCards ==
    {TCardEs, TCardFr, TCardEn, TCardEnNoOracle, TCardEsNoName, TCardFrNoName}

\* answers of the /cards/named endpoint
NamedAnswers ==
    FailureAnswers \cup {Answer200(o) : o \in TranslateCards \cup {ListObject(<<>>)}}

\* answers of the /cards/search endpoint
SearchAnswers ==
    FailureAnswers
    \cup {Answer200(ListObject(q)) :
             q \in {<<>>, <<TCardEs, TCardFr>>, <<TCardFr, TCardEs>>, <<TCardEsNoName>>}}
    \cup {Answer200(TCardEs)}

TranslateLangs == {"es", "fr"}

CsvHeaderTranslate ==
    <<"original_name", "spanish_name", "found", "set", "collector_number", "lang",
      "scryfall_uri">>

\* http_get: the body of a 200, None for any other status and for a transport error
http_get(r) == IF "status" \in DOMAIN r /\ r.status = 200 THEN r.json ELSE None

\* fetch_named: data if data and data.get("object") == "card" else None
FetchNamedResult(d) == IF d # None /\ Get(d, "object") = "card" THEN d ELSE None

\* fetch_named: the request it sends
NamedRequest(name, l, fuzzy) ==
    [url |-> "named",
     params |-> IF fuzzy THEN FuzzyParams(name, l) ELSE ExactParams(name, l)]

\* search_spanish_prints_by_oracle: the request it sends
SearchRequest(oracle_id) ==
    [url |-> "search",
     params |-> << <<"q", "oracleid:" \o oracle_id \o " lang:es">>,
                   <<"order", "released">>, <<"unique", "prints">> >>]

\* search_spanish_prints_by_oracle: what it returns for the body d
SearchResult(d) ==
    IF d = None \/ Get(d, "object") # "list" THEN None
    ELSE IF d.data = <<>> THEN None
    ELSE d.data[1]

\* a plausible slip: step 1 does not compare the record's language
AcceptDirect_NoLangCheck(c, l) == c # None /\ assemble_printed_name(c) # ""

\* translate_name, steps 1 and 2: the record is returned
AcceptDirect(c, l) == c # None /\ Get(c, "lang") = l /\ assemble_printed_name(c) # ""

InitTranslate ==
    /\ pc = "main_loop"
    /\ names \in NameLists
    /\ lang \in TranslateLangs
    /\ size = ""
    /\ i = 1
    /\ strategies = <<>> /\ s = 0
    /\ card = None /\ used = ""
    /\ images = <<>> /\ j = 0 /\ saved_paths = <<>>
    /\ results_rows = <<CsvHeaderTranslate>> /\ csv = <<>>
    /\ translated_lines = <<>> /\ spanish = "" /\ base_card = None /\ data = None
    /\ log = <<>> /\ issued = <<>> /\ got = <<>> /\ resp = None
    /\ awaitingDelay = FALSE
    /\ ParseIdle

downloadOnly == <<size, strategies, s, used, images, j, saved_paths>>

\* main calls translate_name; step 1: fetch_named(name, lang, fuzzy=False), with its
\* time.sleep(REQUEST_DELAY)
TranslateExact ==
    /\ pc = "main_loop" /\ i <= Len(names)
    /\ \E r \in NamedAnswers :
        LET c == FetchNamedResult(http_get(r)) IN
        /\ resp' = r
        /\ issued' = <<NamedRequest(names[i], lang, FALSE)>>
        /\ got' = <<IsCardAnswer(r)>>
        /\ data' = http_get(r)
        /\ card' = c
        /\ spanish' = (IF c # None THEN assemble_printed_name(c) ELSE "")
        /\ pc' = (IF AcceptDirect(c, lang) THEN "translated" ELSE "t_fuzzy")
    /\ awaitingDelay' = FALSE
    /\ base_card' = None
    /\ UNCHANGED <<names, lang, i, results_rows, csv, translated_lines, log,
                   downloadOnly, parseVars>>

\* step 2: fetch_named(name, lang, fuzzy=True)
TranslateFuzzy ==
    /\ pc = "t_fuzzy"
    /\ \E r \in NamedAnswers :
        LET c == FetchNamedResult(http_get(r)) IN
        /\ resp' = r
        /\ issued' = Append(issued, NamedRequest(names[i], lang, TRUE))
        /\ got' = Append(got, IsCardAnswer(r))
        /\ data' = http_get(r)
        /\ card' = c
        /\ spanish' = (IF c # None /\ Get(c, "lang") = lang
                       THEN assemble_printed_name(c) ELSE spanish)
        /\ pc' = (IF AcceptDirect(c, lang) THEN "translated" ELSE "t_base")
    /\ awaitingDelay' = FALSE
    /\ UNCHANGED <<names, lang, i, results_rows, csv, translated_lines, base_card,
                   log, downloadOnly, parseVars>>

\* step 3, first operand of the or: fetch_named(name, None, fuzzy=False)
TranslateBaseExact ==
    /\ pc = "t_base"
    /\ \E r \in NamedAnswers :
        LET c == FetchNamedResult(http_get(r)) IN
        /\ resp' = r
        /\ issued' = Append(issued, NamedRequest(names[i], "", FALSE))
        /\ got' = Append(got, IsCardAnswer(r))
        /\ data' = http_get(r)
        /\ base_card' = c
        /\ pc' = (IF c # None THEN "t_identity" ELSE "t_base_fuzzy")
    /\ awaitingDelay' = FALSE
    /\ UNCHANGED <<names, lang, i, card, spanish, results_rows, csv,
                   translated_lines, log, downloadOnly, parseVars>>

\* step 3, second operand of the or: fetch_named(name, None, fuzzy=True)
TranslateBaseFuzzy ==
    /\ pc = "t_base_fuzzy"
    /\ \E r \in NamedAnswers :
        /\ resp' = r
        /\ issued' = Append(issued, NamedRequest(names[i], "", TRUE))
        /\ got' = Append(got, IsCardAnswer(r))
        /\ data' = http_get(r)
        /\ base_card' = FetchNamedResult(http_get(r))
        /\ pc' = "t_identity"
    /\ awaitingDelay' = FALSE
    /\ UNCHANGED <<names, lang, i, card, spanish, results_rows, csv,
                   translated_lines, log, downloadOnly, parseVars>>

\* step 3: base_card has an oracle_id, search_spanish_prints_by_oracle is called
TranslateSearch ==
    /\ pc = "t_identity"
    /\ base_card # None /\ Get(base_card, "oracle_id") # ""
    /\ \E r \in SearchAnswers :
        LET es_print == SearchResult(http_get(r)) IN
        /\ resp' = r
        /\ issued' = Append(issued, SearchRequest(base_card.oracle_id))
        /\ got' = Append(got, es_print # None)
        /\ data' = http_get(r)
        /\ IF es_print # None /\ assemble_printed_name(es_print) # ""
           THEN /\ spanish' = assemble_printed_name(es_print)
                /\ card' = es_print
                /\ pc' = "translated"
           ELSE /\ spanish' = (IF es_print # None THEN "" ELSE spanish)
                /\ pc' = "t_none"
                /\ UNCHANGED card
    /\ awaitingDelay' = FALSE
    /\ UNCHANGED <<names, lang, i, results_rows, csv, translated_lines, base_card,
                   log, downloadOnly, parseVars>>

\* step 4: return "", None
TranslateNone ==
    /\ \/ pc = "t_none"
       \/ pc = "t_identity" /\ ~(base_card # None /\ Get(base_card, "oracle_id") # "")
    /\ spanish' = ""
    /\ card' = None
    /\ pc' = "translated"
    /\ UNCHANGED <<names, lang, i, results_rows, csv, translated_lines, base_card,
                   data, log, issued, got, resp, awaitingDelay, downloadOnly,
                   parseVars>>

\* main: the row and the deck line of the name
TranslateRow ==
    /\ pc = "translated"
    /\ results_rows' =
          Append(results_rows,
                 <<names[i], spanish, IF spanish # "" THEN "yes" ELSE "no",
                   IF card # None THEN Get(card, "set") ELSE "",
                   IF card # None THEN Get(card, "collector_number") ELSE "",
                   IF card # None THEN Get(card, "lang") ELSE "",
                   IF card # None THEN Get(card, "scryfall_uri") ELSE "">>)
    /\ translated_lines' = Append(translated_lines,
                                  IF spanish # "" THEN spanish ELSE names[i])
    /\ i' = i + 1
    /\ pc' = "main_loop"
    /\ UNCHANGED <<names, lang, card, spanish, csv, base_card, data, log, issued,
                   got, resp, awaitingDelay, downloadOnly, parseVars>>

\* main: after the loop, the CSV is written
TranslateWriteCsv ==
    /\ pc = "main_loop" /\ i > Len(names)
    /\ csv' = results_rows
    /\ pc' = "done"
    /\ UNCHANGED <<names, lang, i, card, spanish, results_rows, translated_lines,
                   base_card, data, log, issued, got, resp, awaitingDelay,
                   downloadOnly, parseVars>>

NextTranslate ==
    \/ TranslateExact
    \/ TranslateFuzzy
    \/ TranslateBaseExact
    \/ TranslateBaseFuzzy
    \/ TranslateSearch
    \/ TranslateNone
    \/ TranslateRow
    \/ TranslateWriteCsv

SpecTranslate == InitTranslate /\ [][NextTranslate]_vars

(***************************************************************************)
(* Claims about the translate flow.                                        *)
(***************************************************************************)
\* the request is the named lookup of this mode, constrained to l unless l is ""
IsNamed(req, mode, name, l) ==
    /\ req.url = "named"
    /\ req.params = (IF l = "" THEN << <<mode, name>> >>
                     ELSE << <<mode, name>>, <<"lang", l>> >>)

IsSearch(req) == req.url = "search"

\* steps 1 and 2: the answer is a card in the target language with a non-empty name
AcceptableDirect(r, l) ==
    /\ IsCardAnswer(r)
    /\ "lang" \in DOMAIN r.json /\ r.json.lang = l
    /\ ExpectedName(r.json) # ""

\* the answer is a list with at least one entry
IsNonEmptyList(r) ==
    /\ "status" \in DOMAIN r /\ r.status = 200
    /\ r.json.object = "list" /\ Len(r.json.data) > 0

\* step 3: the search gave a first entry with a non-empty name
AcceptableSearch(r) == IsNonEmptyList(r) /\ ExpectedName(r.json.data[1]) # ""

HasIdentity(c) == c # None /\ "oracle_id" \in DOMAIN c /\ c.oracle_id # ""

InTranslateName ==
    pc \in {"t_fuzzy", "t_base", "t_base_fuzzy", "t_identity", "t_none", "translated"}

\* C2: translate_name issues exact+lang, fuzzy+lang, exact unconstrained, fuzzy
\* unconstrained only if the unconstrained exact gave no card, then the identity
\* search only if an identity id was obtained; it returns at the first step that
\* produces a non-empty name (steps 1 and 2 only for a record in the target
\* language) and issues nothing after it; with no such step it returns "", None.
C2_TranslateOrder ==
    InTranslateName =>
        LET n == names[i]
            k == Len(issued)
        IN
        /\ k \in 1..5
        /\ IsNamed(issued[1], "exact", n, lang)
        /\ k >= 2 => IsNamed(issued[2], "fuzzy", n, lang)
        /\ k >= 3 => IsNamed(issued[3], "exact", n, "")
        /\ k >= 4 => \/ IsNamed(issued[4], "fuzzy", n, "") /\ ~got[3]
                     \/ IsSearch(issued[4]) /\ got[3] /\ k = 4
        /\ k = 5 => IsSearch(issued[5]) /\ ~got[3] /\ got[4]
        /\ IsSearch(issued[k]) => HasIdentity(base_card)
        /\ pc = "t_fuzzy" => k = 1 /\ ~AcceptableDirect(resp, lang)
        /\ pc = "t_base" => k = 2 /\ ~AcceptableDirect(resp, lang)
        /\ pc = "t_base_fuzzy" => k = 3 /\ ~got[3]
        /\ pc = "t_identity" =>
              /\ k \in {3, 4} /\ ~IsSearch(issued[k])
              /\ base_card = (IF IsCardAnswer(resp) THEN resp.json ELSE None)
        /\ pc = "t_none" => IsSearch(issued[k]) /\ ~AcceptableSearch(resp)
        /\ pc = "translated" =>
              IF spanish # ""
              THEN \/ /\ k <= 2 /\ AcceptableDirect(resp, lang)
                      /\ card = resp.json /\ spanish = ExpectedName(card)
                   \/ /\ IsSearch(issued[k]) /\ AcceptableSearch(resp)
                      /\ card = resp.json.data[1] /\ spanish = ExpectedName(card)
              ELSE /\ card = None
                   /\ k >= 3
                   /\ \/ IsSearch(issued[k]) /\ ~AcceptableSearch(resp)
                      \/ ~IsSearch(issued[k]) /\ ~HasIdentity(base_card)

\* step 1 gave a card of another language, step 2 nothing, the unconstrained exact
\* gave the identity, and the search produced the name: four requests
C2_Witness ==
    /\ pc = "translated" /\ lang = "es"
    /\ Len(issued) = 4
    /\ got = <<TRUE, FALSE, TRUE, TRUE>>
    /\ IsSearch(issued[4])
    /\ spanish = "p1"

\* the answer is a transport error or a status other than 2xx and other than 404
IsRequestFailure(r) ==
    \/ "exc" \in DOMAIN r
    \/ "status" \in DOMAIN r /\ r.status \notin 200..299 /\ r.status # 404

\* C4: a lookup that ends in a transport error or in a status other than 2xx and 404
\* is reported (logged with the name or parameters) and what the caller gets differs
\* from what it gets for a 404.
C4_FailureReported ==
    (issued # <<>> /\ IsRequestFailure(resp)) =>
        /\ log # <<>>
        /\ data # http_get([status |-> 404])

\* C7: the search-by-identity request is constrained to the target language passed
\* to translate_name, and the record taken from a non-empty list is its first entry.
C7_SearchInTargetLanguage ==
    (InTranslateName /\ issued # <<>> /\ IsSearch(issued[Len(issued)])) =>
        /\ issued[Len(issued)].params[1] =
              <<"q", "oracleid:" \o base_card.oracle_id \o " lang:" \o lang>>
        /\ (pc = "translated" /\ spanish # "") => card = resp.json.data[1]

(***************************************************************************)
(* Name normalizer: parse_names_from_file, the same code in both scripts.  *)
(* A line is the sequence of its characters, without the line terminator.  *)
(***************************************************************************)
Alphabet == {" ", "#", "/", "1", "a"}

IsSpace(ch) == ch = " "

IsDigit(ch) == ch \in {"1", "2"}

\* lines like those of the scripts' documentation (quantity, comment, two-face
\* separator), shortened, and their edge cases
SampleLines ==
    { <<"1", " ", "a", " ", "#", " ", "b">>,
      <<"1", " ", "a", "/", "/", "b">>,
      <<"2", " ", "a", " ", "/", "/", " ", "b">>,
      <<"a", " ", " ", "/", "/", "b", " ">>,
      <<" ", "#", " ", "a">>,
      <<"1", "2", " ", " ", "a", " ">>,
      <<"b", "#", "a">>,
      <<" ", " ", " ">>,
      <<" ", "a", " ">>,
      <<"1", " ", "a">>,
      <<"1", "a">>,
      <<"1", " ">>,
      <<"1", " ", "#", "a">>,
      <<"/", "/">>,
      <<"a", "/", "/">>,
      <<"a", "/", "b">>,
      <<"a", "/", "/", "/", "b">>,
      <<"#", "#">>,
      <<"a", " ", "b">>,
      <<"1", " ", "2", " ", "a">>,
      <<"a", " ", "#", " ", "/", "/", " ", "b">>,
      <<"1", " ", " ", "/", "/", "a">>,
      <<"b">>,
      <<"b", " ", "/", "/", " ", "a">> }

Lines == SeqsUpTo(Alphabet, MaxLineLen) \cup SampleLines

RECURSIVE LStrip(_)
LStrip(q) == IF q # <<>> /\ IsSpace(Head(q)) THEN LStrip(Tail(q)) ELSE q

RECURSIVE RStrip(_)
RStrip(q) ==
    IF q # <<>> /\ IsSpace(q[Len(q)]) THEN RStrip(SubSeq(q, 1, Len(q) - 1)) ELSE q

\* str.strip()
Strip(q) == RStrip(LStrip(q))

\* line.split("#", 1)[0]
RECURSIVE BeforeHash(_)
BeforeHash(q) ==
    IF q = <<>> \/ Head(q) = "#" THEN <<>> ELSE <<Head(q)>> \o BeforeHash(Tail(q))

RECURSIVE SkipDigits(_)
SkipDigits(q) == IF q # <<>> /\ IsDigit(Head(q)) THEN SkipDigits(Tail(q)) ELSE q

\* re.match(r"^\s*\d+\s+(.*)$", line): whether it matches
QuantityMatches(q) ==
    LET a == LStrip(q)
        b == SkipDigits(a)
    IN  /\ a # <<>> /\ IsDigit(Head(a))
        /\ b # <<>> /\ IsSpace(Head(b))

\* group(1) of that match
QuantityRest(q) == LStrip(SkipDigits(LStrip(q)))

\* re.sub(r"\s*//\s*", " // ", line)
RECURSIVE NormalizeSlashes(_)
NormalizeSlashes(q) ==
    IF q = <<>> THEN <<>>
    ELSE LET a == LStrip(q) IN
         IF Len(a) >= 2 /\ a[1] = "/" /\ a[2] = "/"
         THEN <<" ", "/", "/", " ">> \o NormalizeSlashes(LStrip(SubSeq(a, 3, Len(a))))
         ELSE <<Head(q)>> \o NormalizeSlashes(Tail(q))

\* the body of the loop up to the test of seen: the name of the line, <<>> when the
\* line is skipped or leaves nothing
ParseLine(raw) ==
    LET l1 == Strip(raw) IN
    IF l1 = <<>> \/ Head(l1) = "#" THEN <<>>
    ELSE LET l2 == Strip(BeforeHash(l1))
             l3 == IF QuantityMatches(l2) THEN Strip(QuantityRest(l2)) ELSE l2
         IN  NormalizeSlashes(l3)

\* a plausible slip: the name is appended without looking at seen
EmitName_NoDedup(ns, sn, line) == IF line # <<>> THEN Append(ns, line) ELSE ns

\* if line and line not in seen: names.append(line)
EmitName(ns, sn, line) ==
    IF line # <<>> /\ line \notin sn THEN Append(ns, line) ELSE ns

InitParse ==
    /\ pc = "parse"
    /\ names = <<>>
    /\ seen = {}
    /\ lines = <<>>
    /\ lang = "" /\ i = 0
    /\ strategies = <<>> /\ s = 0 /\ used = ""
    /\ j = 0 /\ saved_paths = <<>>
    /\ results_rows = <<>> /\ csv = <<>> /\ translated_lines = <<>>
    /\ base_card = None /\ data = None
    /\ log = <<>> /\ issued = <<>> /\ got = <<>> /\ resp = None
    /\ awaitingDelay = FALSE
    /\ card = None /\ size = "" /\ images = <<>> /\ spanish = ""

notParse == <<lang, size, i, strategies, s, card, used, images, j, saved_paths,
              results_rows, csv, translated_lines, spanish, base_card, data, log,
              issued, got, resp, awaitingDelay>>

\* one iteration of "for line in f"
ReadLine ==
    /\ pc = "parse" /\ Len(lines) < MaxLines
    /\ \E raw \in Lines :
        LET line == ParseLine(raw) IN
        /\ lines' = Append(lines, raw)
        /\ names' = EmitName(names, seen, line)
        /\ seen' = (IF line # <<>> /\ line \notin seen THEN seen \cup {line} ELSE seen)
    /\ UNCHANGED <<pc, notParse>>

\* the end of the file: return names
EndOfFile ==
    /\ pc = "parse"
    /\ pc' = "parsed"
    /\ UNCHANGED <<names, seen, lines, notParse>>

NextParse == ReadLine \/ EndOfFile

SpecParse == InitParse /\ [][NextParse]_vars

\* the line is blank, whitespace-only or only a comment
BlankOrComment(raw) ==
    \/ \A k \in DOMAIN raw : raw[k] = " "
    \/ \E k \in DOMAIN raw : raw[k] = "#" /\ \A m \in 1..(k - 1) : raw[m] = " "

\* the first line read that produced the name n
FirstLine(n) == Min({k \in DOMAIN lines : ParseLine(lines[k]) = n})

\* C10: the list returned holds no empty name and no two equal names, its names are
\* exactly the non-empty names of the lines read, in the order of the first line
\* that produced each; a blank, whitespace-only or comment-only line contributes none.
C10_UniqueInOrder ==
    /\ \A k \in DOMAIN names : names[k] # <<>>
    /\ \A a, b \in DOMAIN names : a # b => names[a] # names[b]
    /\ Range(names) = {ParseLine(lines[k]) : k \in DOMAIN lines} \ {<<>>}
    /\ \A a, b \in DOMAIN names : a < b => FirstLine(names[a]) < FirstLine(names[b])
    /\ Range(names) =
          {ParseLine(lines[k]) : k \in {m \in DOMAIN lines : ~BlankOrComment(lines[m])}}
            \ {<<>>}
    /\ seen = Range(names)

\* "1 a//b" then "2 a // b": both lines give "a // b", which is listed once
C10_Witness ==
    /\ pc = "parsed"
    /\ lines = << <<"1", " ", "a", "/", "/", "b">>,
                  <<"2", " ", "a", " ", "/", "/", " ", "b">> >>
    /\ names = << <<"a", " ", "/", "/", " ", "b">> >>

====
